---- MODULE Spec2Model ----
(***************************************************************************)
(* Dots and boxes: the reversible board engine (BoardState, BarVec), the   *)
(* checkpointed search state (AIState, MinMaxStateCheckpoint), the move    *)
(* enumerator (PossibleMovesIter) and the one-ply search (MinMax) with the *)
(* random-rollout evaluator (AIMinMaxInterface::heuristic).               *)
(***************************************************************************)
EXTENDS Integers, Sequences, FiniteSets, TLC

VARIABLES board, root_state, cps, pre, out, pc, srch, fault

vars == <<board, root_state, cps, pre, out, pc, srch, fault>>

(***************************************************************************)
(* Bounds of the model.                                                    *)
(***************************************************************************)
\* boards have at most MaxDots dots (width * height)
MaxDots == 6
\* a search is started only on boards with at most MaxSearchFree free bars
MaxSearchFree == 2
\* a checkpoint that is handed any bar of the board takes at most MaxApplies
\* applies
MaxApplies == 2
\* the boards on which the termination of best_move is checked have at most
\* MaxFairDots dots
MaxFairDots == 4

(***************************************************************************)
(* Program constants.                                                      *)
(***************************************************************************)
\* heuristic: let nr_tests = 5
nr_tests == 5
\* random_free_move: for _ in 0..3
nr_tries == 3

(***************************************************************************)
(* CellState, Player, BarDirection, BarId                                  *)
(***************************************************************************)
Free == "Free"
Red == "Red"
Blue == "Blue"
Player == {Red, Blue}
CellState == {Free} \cup Player
Vertical == "Vertical"
Horizontal == "Horizontal"

BarId(direction, col, row) == [direction |-> direction, col |-> col, row |-> row]

\* Player::other (the toggle of the two players)
other(p) == IF p = Blue THEN Red ELSE Blue

(***************************************************************************)
(* BarVec: a flat vector of width * height slots, index = row * width + col*)
(***************************************************************************)
BarVecNew(width, height, direction) ==
    [width |-> width, height |-> height, direction |-> direction,
     vec |-> [i \in 0 .. (width * height - 1) |-> Free]]

BarVecGet(bv, col, row) == bv.vec[row * bv.width + col]

\* set that indexes column-major: col * height + row
BarVecSet_column_major(bv, col, row, state) ==
    [bv EXCEPT !.vec = [@ EXCEPT ![col * bv.height + row] = state]]

BarVecSet(bv, col, row, state) ==
    [bv EXCEPT !.vec = [@ EXCEPT ![row * bv.width + col] = state]]

BarVecClear(bv) == [bv EXCEPT !.vec = [i \in DOMAIN @ |-> Free]]

\* BarVec.length
BarVecLength(bv) == bv.width * bv.height

\* BarVec::index_to_id
index_to_id(bv, index) == BarId(bv.direction, index % bv.width, index \div bv.width)

(***************************************************************************)
(* BoardState                                                              *)
(***************************************************************************)
BoardStateNew(width, height) ==
    [width |-> width, height |-> height, cur_turn |-> Red,
     vstates |-> BarVecNew(width, height - 1, Vertical),
     hstates |-> BarVecNew(width - 1, height, Horizontal),
     cellstates |-> [i \in 0 .. ((width - 1) * (height - 1) - 1) |-> Free]]

cell_get(b, col, row) == b.cellstates[row * (b.width - 1) + col]

cell_set(b, col, row, state) ==
    [b EXCEPT !.cellstates = [@ EXCEPT ![row * (b.width - 1) + col] = state]]

cell_is_full(b, col, row) ==
    /\ BarVecGet(b.vstates, col, row) # Free
    /\ BarVecGet(b.vstates, col + 1, row) # Free
    /\ BarVecGet(b.hstates, col, row) # Free
    /\ BarVecGet(b.hstates, col, row + 1) # Free

bar_get(b, bar) ==
    IF bar.direction = Vertical
    THEN BarVecGet(b.vstates, bar.col, bar.row)
    ELSE BarVecGet(b.hstates, bar.col, bar.row)

bar_set(b, bar, state) ==
    IF bar.direction = Vertical
    THEN [b EXCEPT !.vstates = BarVecSet(@, bar.col, bar.row, state)]
    ELSE [b EXCEPT !.hstates = BarVecSet(@, bar.col, bar.row, state)]

\* bar_neighbors that stops after the first cell it finds
bar_neighbors_first_only(b, bar) ==
    IF bar.direction = Vertical
    THEN (IF bar.col # 0 THEN << <<bar.col - 1, bar.row>> >>
          ELSE IF bar.col < b.width - 1 THEN << <<bar.col, bar.row>> >> ELSE << >>)
    ELSE (IF bar.row # 0 THEN << <<bar.col, bar.row - 1>> >>
          ELSE IF bar.row < b.height - 1 THEN << <<bar.col, bar.row>> >> ELSE << >>)

\* the cells next to a bar, in the order the code pushes them
bar_neighbors(b, bar) ==
    IF bar.direction = Vertical
    THEN (IF bar.col # 0 THEN << <<bar.col - 1, bar.row>> >> ELSE << >>)
         \o (IF bar.col < b.width - 1 THEN << <<bar.col, bar.row>> >> ELSE << >>)
    ELSE (IF bar.row # 0 THEN << <<bar.col, bar.row - 1>> >> ELSE << >>)
         \o (IF bar.row < b.height - 1 THEN << <<bar.col, bar.row>> >> ELSE << >>)

\* the loop of do_move with point_gained assigned from the neighbour at hand,
\* so that the last neighbour decides it
RECURSIVE do_move_cells_last_only(_, _, _, _)
do_move_cells_last_only(acc, neighbors, i, cur_turn) ==
    IF i > Len(neighbors) THEN acc
    ELSE LET n == neighbors[i]
         IN  IF cell_is_full(acc.board, n[1], n[2])
             THEN do_move_cells_last_only(
                      [board |-> cell_set(acc.board, n[1], n[2], cur_turn),
                       point_gained |-> TRUE], neighbors, i + 1, cur_turn)
             ELSE do_move_cells_last_only(
                      [board |-> acc.board, point_gained |-> FALSE],
                      neighbors, i + 1, cur_turn)

\* the loop of do_move leaving after the first neighbour
do_move_cells_first_only(acc, neighbors, i, cur_turn) ==
    IF i > Len(neighbors) THEN acc
    ELSE LET n == neighbors[i]
         IN  IF cell_is_full(acc.board, n[1], n[2])
             THEN [board |-> cell_set(acc.board, n[1], n[2], cur_turn),
                   point_gained |-> TRUE]
             ELSE acc

\* the loop of do_move over the neighbours: each full neighbour cell is given
\* to cur_turn; acc is [board, point_gained]
RECURSIVE do_move_cells(_, _, _, _)
do_move_cells(acc, neighbors, i, cur_turn) ==
    IF i > Len(neighbors) THEN acc
    ELSE LET n == neighbors[i]
         IN  IF cell_is_full(acc.board, n[1], n[2])
             THEN do_move_cells([board |-> cell_set(acc.board, n[1], n[2], cur_turn),
                                 point_gained |-> TRUE], neighbors, i + 1, cur_turn)
             ELSE do_move_cells(acc, neighbors, i + 1, cur_turn)

\* do_move without the test that the bar is Free
do_move_overwrite(b, bar) ==
    LET cur_turn == b.cur_turn
        neighbors == bar_neighbors(b, bar)
        r == do_move_cells([board |-> bar_set(b, bar, cur_turn),
                            point_gained |-> FALSE], neighbors, 1, cur_turn)
    IN  [board |-> IF ~r.point_gained
                   THEN [r.board EXCEPT !.cur_turn = IF @ = Blue THEN Red ELSE Blue]
                   ELSE r.board,
         ret |-> TRUE]

\* BoardState::do_move: [board, ret]
do_move(b, bar) ==
    LET cur_turn == b.cur_turn
        neighbors == bar_neighbors(b, bar)
    IN  IF bar_get(b, bar) = Free
        THEN LET r == do_move_cells([board |-> bar_set(b, bar, cur_turn),
                                     point_gained |-> FALSE], neighbors, 1, cur_turn)
             IN  [board |-> IF ~r.point_gained
                            THEN [r.board EXCEPT !.cur_turn =
                                      IF @ = Blue THEN Red ELSE Blue]
                            ELSE r.board,
                  ret |-> TRUE]
        ELSE [board |-> b, ret |-> FALSE]

\* restart that leaves the cells as they are
restart_keeps_cells(b, starting_player) ==
    [b EXCEPT !.vstates = BarVecClear(@),
              !.hstates = BarVecClear(@),
              !.cur_turn = starting_player]

\* BoardState::restart
restart(b, starting_player) ==
    [b EXCEPT !.cellstates = [i \in DOMAIN @ |-> Free],
              !.vstates = BarVecClear(@),
              !.hstates = BarVecClear(@),
              !.cur_turn = starting_player]

(***************************************************************************)
(* BoardState::do_move on any BarId.  BarVec::get and BarVec::set index    *)
(* the flat Vec at row * width + col without comparing col and row with    *)
(* the dimensions: an index inside the Vec is another bar's slot, an index *)
(* past its end is the panic of Vec's Index.                               *)
(***************************************************************************)
\* the index BarVec::get and BarVec::set compute is inside the Vec
BarVecIndexOk(bv, col, row) == (row * bv.width + col) \in DOMAIN bv.vec

\* the index cell_get and cell_set compute is inside the Vec
cell_index_ok(b, col, row) == (row * (b.width - 1) + col) \in DOMAIN b.cellstates

\* cell_is_full panics: one of the four reads, taken in order and only as far
\* as && evaluates them, indexes past the end of its Vec
cell_is_full_panics(b, col, row) ==
    \/ ~BarVecIndexOk(b.vstates, col, row)
    \/ /\ BarVecGet(b.vstates, col, row) # Free
       /\ \/ ~BarVecIndexOk(b.vstates, col + 1, row)
          \/ /\ BarVecGet(b.vstates, col + 1, row) # Free
             /\ \/ ~BarVecIndexOk(b.hstates, col, row)
                \/ /\ BarVecGet(b.hstates, col, row) # Free
                   /\ ~BarVecIndexOk(b.hstates, col, row + 1)

\* bar_get and bar_set index inside the Vec of the bar's direction
bar_index_ok(b, bar) ==
    IF bar.direction = Vertical
    THEN BarVecIndexOk(b.vstates, bar.col, bar.row)
    ELSE BarVecIndexOk(b.hstates, bar.col, bar.row)

\* the loop of do_move with the panics of its reads and of cell_set; acc is
\* [board, point_gained, panic] and the loop is left at the first panic
RECURSIVE do_move_cells_indexed(_, _, _, _)
do_move_cells_indexed(acc, neighbors, i, cur_turn) ==
    IF i > Len(neighbors) THEN acc
    ELSE LET n == neighbors[i]
         IN  IF cell_is_full_panics(acc.board, n[1], n[2])
             THEN [acc EXCEPT !.panic = TRUE]
             ELSE IF cell_is_full(acc.board, n[1], n[2])
             THEN IF cell_index_ok(acc.board, n[1], n[2])
                  THEN do_move_cells_indexed(
                           [board |-> cell_set(acc.board, n[1], n[2], cur_turn),
                            point_gained |-> TRUE, panic |-> FALSE],
                           neighbors, i + 1, cur_turn)
                  ELSE [acc EXCEPT !.panic = TRUE]
             ELSE do_move_cells_indexed(acc, neighbors, i + 1, cur_turn)

\* BoardState::do_move on any BarId: [board, ret, panic]; after a panic board
\* is what had been written when it was raised
do_move_indexed(b, bar) ==
    LET cur_turn == b.cur_turn
        neighbors == bar_neighbors(b, bar)
    IN  IF ~bar_index_ok(b, bar)
        THEN [board |-> b, ret |-> FALSE, panic |-> TRUE]
        ELSE IF bar_get(b, bar) = Free
        THEN LET r == do_move_cells_indexed(
                          [board |-> bar_set(b, bar, cur_turn),
                           point_gained |-> FALSE, panic |-> FALSE],
                          neighbors, 1, cur_turn)
             IN  [board |-> IF ~r.point_gained /\ ~r.panic
                            THEN [r.board EXCEPT !.cur_turn =
                                      IF @ = Blue THEN Red ELSE Blue]
                            ELSE r.board,
                  ret |-> ~r.panic, panic |-> r.panic]
        ELSE [board |-> b, ret |-> FALSE, panic |-> FALSE]

(***************************************************************************)
(* Option values                                                           *)
(***************************************************************************)
None == << >>
Some(x) == << x >>

(***************************************************************************)
(* PossibleMovesIter                                                       *)
(***************************************************************************)
\* first_free_from_index searching from the slot after start_index
first_free_after_index(start_index, bv) ==
    LET hits == {index \in (start_index + 1) .. (BarVecLength(bv) - 1) :
                    LET bar_id == index_to_id(bv, index)
                    IN  BarVecGet(bv, bar_id.col, bar_id.row) = Free}
    IN  IF hits = {} THEN None
        ELSE LET index == CHOOSE i \in hits : \A j \in hits : i <= j
             IN  Some([bar_id |-> index_to_id(bv, index), index |-> index])

\* the closure first_free_from_index: the first index >= start_index whose
\* slot is Free, or None
first_free_from_index(start_index, bv) ==
    LET hits == {index \in start_index .. (BarVecLength(bv) - 1) :
                    LET bar_id == index_to_id(bv, index)
                    IN  BarVecGet(bv, bar_id.col, bar_id.row) = Free}
    IN  IF hits = {} THEN None
        ELSE LET index == CHOOSE i \in hits : \A j \in hits : i <= j
             IN  Some([bar_id |-> index_to_id(bv, index), index |-> index])

\* PossibleMovesIter::next: [item, cur_index], cur_index the iterator's field
\* after the call
PossibleMovesIterNext(self_cur_index, state) ==
    LET board_state == state.board_state
        vlen == BarVecLength(board_state.vstates)
        hlen == BarVecLength(board_state.hstates)
        first_free_vstate == first_free_from_index(self_cur_index, board_state.vstates)
        in_v == self_cur_index < vlen
        cur_index == IF in_v THEN 0 ELSE self_cur_index - vlen
        first_free_hstate == first_free_from_index(cur_index, board_state.hstates)
    IN  IF in_v /\ first_free_vstate # None
        THEN [item |-> Some(first_free_vstate[1].bar_id),
              cur_index |-> first_free_vstate[1].index + 1]
        ELSE IF cur_index < hlen /\ first_free_hstate # None
        THEN [item |-> Some(first_free_hstate[1].bar_id),
              cur_index |-> first_free_hstate[1].index + vlen + 1]
        ELSE [item |-> None, cur_index |-> self_cur_index]

\* possible_moves().collect(): next is called from cur_index 0 until it gives None
RECURSIVE possible_moves_from(_, _)
possible_moves_from(cur_index, state) ==
    LET r == PossibleMovesIterNext(cur_index, state)
    IN  IF r.item = None THEN << >>
        ELSE <<r.item[1]>> \o possible_moves_from(r.cur_index, state)

\* possible_moves with an iterator that starts at cur_index 1
possible_moves_from_one(state) == possible_moves_from(1, state)

possible_moves(state) == possible_moves_from(0, state)

(***************************************************************************)
(* AIState                                                                 *)
(***************************************************************************)
NoFault == "none"

\* impl From<BoardState> for AIState
AIStateFrom(board_state) == [board_state |-> board_state, mutation_stack |-> << >>]

\* _apply_move that leaves the move off the mutation stack
apply_move_no_push(state, mv) ==
    LET r == do_move(state.board_state, mv)
    IN  [state |-> [board_state |-> r.board,
                    mutation_stack |-> state.mutation_stack],
         ret |-> r.ret]

\* AIState::_apply_move: [state, ret]
apply_move(state, mv) ==
    LET r == do_move(state.board_state, mv)
    IN  [state |-> [board_state |-> r.board,
                    mutation_stack |-> Append(state.mutation_stack, mv)],
         ret |-> r.ret]

\* point_scored that looks at the first neighbour only
point_scored_first_only(b, neighbors, i) ==
    IF i > Len(neighbors) THEN "not_scored"
    ELSE LET cell_state == cell_get(b, neighbors[i][1], neighbors[i][2])
         IN  IF cell_state = other(b.cur_turn) THEN "assert"
             ELSE IF cell_state # Free THEN "scored"
             ELSE "not_scored"

\* the closure of neighbors.iter().any(..) in _undo_moves: the neighbours are
\* visited in order until one is not Free; each visited one is asserted not to
\* belong to the other player. "scored", "not_scored" or "assert"
RECURSIVE point_scored(_, _, _)
point_scored(b, neighbors, i) ==
    IF i > Len(neighbors) THEN "not_scored"
    ELSE LET cell_state == cell_get(b, neighbors[i][1], neighbors[i][2])
         IN  IF cell_state = other(b.cur_turn) THEN "assert"
             ELSE IF cell_state # Free THEN "scored"
             ELSE point_scored(b, neighbors, i + 1)

\* undo that leaves the neighbour cells as they are
undo_cells_noop(b, neighbors, i) == b

\* undo that frees every cell of the board
undo_cells_all(b, neighbors, i) ==
    [b EXCEPT !.cellstates = [j \in DOMAIN @ |-> Free]]

\* undo that frees the first neighbour cell only
undo_cells_first_only(b, neighbors, i) ==
    IF i > Len(neighbors) THEN b
    ELSE cell_set(b, neighbors[i][1], neighbors[i][2], Free)

\* the loop of _undo_moves that frees every neighbour cell
RECURSIVE undo_cells(_, _, _)
undo_cells(b, neighbors, i) ==
    IF i > Len(neighbors) THEN b
    ELSE undo_cells(cell_set(b, neighbors[i][1], neighbors[i][2], Free), neighbors, i + 1)

\* one round of undo that takes the previous mover to be the other player
\* whether or not a point was scored
undo_one_always_toggles(state) ==
    IF state.mutation_stack = << >>
    THEN [state |-> state, ret |-> FALSE, fault |-> "mutation stack empty during undo"]
    ELSE LET n == Len(state.mutation_stack)
             mv == state.mutation_stack[n]
             popped == [state EXCEPT !.mutation_stack = SubSeq(@, 1, n - 1)]
             b == state.board_state
             neighbors == bar_neighbors(b, mv)
             scored == point_scored(b, neighbors, 1)
             this_turn == other(b.cur_turn)
         IN  IF scored = "assert"
             THEN [state |-> popped, ret |-> FALSE, fault |-> "wrong cell state"]
             ELSE IF bar_get(b, mv) # this_turn
             THEN [state |-> popped, ret |-> FALSE, fault |-> NoFault]
             ELSE [state |-> [popped EXCEPT !.board_state =
                                 [undo_cells(bar_set(b, mv, Free), neighbors, 1)
                                     EXCEPT !.cur_turn = this_turn]],
                   ret |-> TRUE, fault |-> NoFault]

\* one round of the closure of _undo_moves: [state, ret, fault]
undo_one(state) ==
    IF state.mutation_stack = << >>
    THEN [state |-> state, ret |-> FALSE, fault |-> "mutation stack empty during undo"]
    ELSE LET n == Len(state.mutation_stack)
             mv == state.mutation_stack[n]
             popped == [state EXCEPT !.mutation_stack = SubSeq(@, 1, n - 1)]
             b == state.board_state
             neighbors == bar_neighbors(b, mv)
             scored == point_scored(b, neighbors, 1)
             this_turn == IF scored = "scored" THEN b.cur_turn ELSE other(b.cur_turn)
         IN  IF scored = "assert"
             THEN [state |-> popped, ret |-> FALSE, fault |-> "wrong cell state"]
             ELSE IF bar_get(b, mv) # this_turn
             THEN [state |-> popped, ret |-> FALSE, fault |-> NoFault]
             ELSE [state |-> [popped EXCEPT !.board_state =
                                 [undo_cells(bar_set(b, mv, Free), neighbors, 1)
                                     EXCEPT !.cur_turn = this_turn]],
                   ret |-> TRUE, fault |-> NoFault]

\* _undo_moves that undoes every move on the mutation stack, whatever
\* nr_moves is
RECURSIVE undo_moves_all(_, _)
undo_moves_all(state, nr_moves) ==
    IF state.mutation_stack = << >>
    THEN [state |-> state, ret |-> TRUE, fault |-> NoFault]
    ELSE LET r == undo_one(state)
         IN  IF r.fault # NoFault \/ ~r.ret THEN r
             ELSE undo_moves_all(r.state, nr_moves)

\* AIState::_undo_moves: (0..nr_moves).all(..) stops at the first false
RECURSIVE undo_moves(_, _)
undo_moves(state, nr_moves) ==
    IF nr_moves = 0 THEN [state |-> state, ret |-> TRUE, fault |-> NoFault]
    ELSE LET r == undo_one(state)
         IN  IF r.fault # NoFault \/ ~r.ret THEN r
             ELSE undo_moves(r.state, nr_moves - 1)

\* random_free_move: the set of values it can return over all draws of the
\* rng.  A draw of a Free slot returns it; a draw of a taken slot goes to the
\* next try; after the last try the result is chosen from possible_moves
RECURSIVE random_free_move_tries(_, _)
random_free_move_tries(state, tries) ==
    LET vlen == BarVecLength(state.board_state.vstates)
        hlen == BarVecLength(state.board_state.hstates)
        total_bars == vlen + hlen
        drawn(chosen_index) ==
            LET bv == IF chosen_index < vlen THEN state.board_state.vstates
                      ELSE state.board_state.hstates
                index == IF chosen_index < vlen THEN chosen_index
                         ELSE chosen_index - vlen
            IN  index_to_id(bv, index)
        hit == {chosen_index \in 0 .. (total_bars - 1) :
                   bar_get(state.board_state, drawn(chosen_index)) = Free}
    IN  IF tries = 0
        THEN LET pm == possible_moves(state)
             IN  IF pm = << >> THEN {None} ELSE {Some(pm[k]) : k \in 1 .. Len(pm)}
        ELSE {Some(drawn(chosen_index)) : chosen_index \in hit}
             \cup (IF hit # 0 .. (total_bars - 1)
                   THEN random_free_move_tries(state, tries - 1) ELSE {})

\* random_free_move that returns the bar of its first draw, Free or not
random_free_move_first_draw(state) ==
    LET vlen == BarVecLength(state.board_state.vstates)
        hlen == BarVecLength(state.board_state.hstates)
        total_bars == vlen + hlen
        drawn(chosen_index) ==
            LET bv == IF chosen_index < vlen THEN state.board_state.vstates
                      ELSE state.board_state.hstates
                index == IF chosen_index < vlen THEN chosen_index
                         ELSE chosen_index - vlen
            IN  index_to_id(bv, index)
    IN  {Some(drawn(chosen_index)) : chosen_index \in 0 .. (total_bars - 1)}

\* random_free_move that gives None when its draws all hit taken slots
random_free_move_no_fallback(state) ==
    LET vlen == BarVecLength(state.board_state.vstates)
        hlen == BarVecLength(state.board_state.hstates)
        total_bars == vlen + hlen
        drawn(chosen_index) ==
            LET bv == IF chosen_index < vlen THEN state.board_state.vstates
                      ELSE state.board_state.hstates
                index == IF chosen_index < vlen THEN chosen_index
                         ELSE chosen_index - vlen
            IN  index_to_id(bv, index)
        hit == {chosen_index \in 0 .. (total_bars - 1) :
                   bar_get(state.board_state, drawn(chosen_index)) = Free}
    IN  {Some(drawn(chosen_index)) : chosen_index \in hit}
        \cup (IF hit # 0 .. (total_bars - 1) THEN {None} ELSE {})

\* AIState::random_free_move: the set of values it can return
random_free_move(state) == random_free_move_tries(state, nr_tries)

(***************************************************************************)
(* The state machine.                                                      *)
(*   board       Game.board, the board of the game being played            *)
(*   root_state  MinMax.root_state, the AIState the checkpoints work on;   *)
(*               NoState outside a call: next_move replaces it before it   *)
(*               is read again                                             *)
(*   cps         mutation_count of every open MinMaxStateCheckpoint,       *)
(*               innermost last                                            *)
(*   pre         history: root_state.board_state when each open            *)
(*               checkpoint was opened                                     *)
(*   out         the last operation, its argument and what it returned     *)
(*   pc          position of the caller: "idle", "rooted" (root state set, *)
(*               no checkpoint open), "cp" (checkpoints open), and the     *)
(*               positions of best_move                                    *)
(*   srch        the locals of best_move and heuristic                     *)
(*   fault       the panic raised, NoFault if none                         *)
(***************************************************************************)
NoState == << >>
NoSearch == << >>

Dims == {d \in (2 .. MaxDots) \X (2 .. MaxDots) : d[1] * d[2] <= MaxDots}

\* every BarId in range on board b
AllBars(b) ==
    {BarId(Vertical, c, r) : c \in 0 .. (b.width - 1), r \in 0 .. (b.height - 2)}
    \cup {BarId(Horizontal, c, r) : c \in 0 .. (b.width - 2), r \in 0 .. (b.height - 1)}

FreeBars(b) == {bar \in AllBars(b) : bar_get(b, bar) = Free}

Init ==
    /\ \E d \in Dims : board = BoardStateNew(d[1], d[2])
    /\ root_state = NoState
    /\ cps = << >>
    /\ pre = << >>
    /\ out = [op |-> "new", arg |-> None, ret |-> TRUE]
    /\ pc = "idle"
    /\ srch = NoSearch
    /\ fault = NoFault

\* BoardState::do_move on the game's board
DoMove(bar) ==
    /\ pc = "idle" /\ fault = NoFault
    /\ LET r == do_move(board, bar)
       IN  /\ board' = r.board
           /\ out' = [op |-> "do_move", arg |-> bar, ret |-> r.ret]
    /\ UNCHANGED <<root_state, cps, pre, pc, srch, fault>>

\* BoardState::restart on the game's board
Restart(starting_player) ==
    /\ pc = "idle" /\ fault = NoFault
    /\ board' = restart(board, starting_player)
    /\ out' = [op |-> "restart", arg |-> starting_player, ret |-> TRUE]
    /\ UNCHANGED <<root_state, cps, pre, pc, srch, fault>>

\* MinMax::set_root_state(state.clone().into()), as AIMinMax::next_move calls it
SetRootState ==
    /\ pc = "idle" /\ fault = NoFault
    /\ root_state' = AIStateFrom(board)
    /\ pc' = "rooted"
    /\ out' = [op |-> "set_root_state", arg |-> None, ret |-> TRUE]
    /\ UNCHANGED <<board, cps, pre, srch, fault>>

\* MinMaxState::checkpoint on the root state, as best_move opens it
Checkpoint ==
    /\ pc = "rooted" /\ fault = NoFault
    /\ cps' = Append(cps, 0)
    /\ pre' = Append(pre, root_state.board_state)
    /\ pc' = "cp"
    /\ out' = [op |-> "checkpoint", arg |-> None, ret |-> TRUE]
    /\ UNCHANGED <<board, root_state, srch, fault>>

\* apply that returns what _apply_move returned instead of asserting it
Apply_returns_false(mv) ==
    /\ pc = "cp" /\ fault = NoFault
    /\ LET r == apply_move(root_state, mv)
       IN  /\ root_state' = r.state
           /\ cps' = [cps EXCEPT ![Len(cps)] = @ + 1]
           /\ fault' = NoFault
           /\ out' = [op |-> "apply", arg |-> mv, ret |-> r.ret]
    /\ UNCHANGED <<board, pre, pc, srch>>

\* MinMaxStateCheckpoint::apply on the innermost checkpoint
Apply(mv) ==
    /\ pc = "cp" /\ fault = NoFault
    /\ LET r == apply_move(root_state, mv)
       IN  /\ root_state' = r.state
           /\ cps' = [cps EXCEPT ![Len(cps)] = @ + 1]
           /\ fault' = IF r.ret THEN NoFault ELSE "applying move failed"
           /\ out' = [op |-> "apply", arg |-> mv, ret |-> r.ret]
    /\ UNCHANGED <<board, pre, pc, srch>>

\* MinMaxStateCheckpoint::drop of the innermost checkpoint
Drop ==
    /\ pc = "cp" /\ fault = NoFault
    /\ LET n == Len(cps)
           r == undo_moves(root_state, cps[n])
       IN  /\ root_state' = r.state
           /\ cps' = SubSeq(cps, 1, n - 1)
           /\ pre' = SubSeq(pre, 1, n - 1)
           /\ fault' = IF r.fault # NoFault THEN r.fault
                       ELSE IF ~r.ret THEN "undo move failed" ELSE NoFault
           /\ pc' = IF n = 1 THEN "rooted" ELSE "cp"
           /\ out' = [op |-> "drop", arg |-> pre[n], ret |-> cps[n]]
    /\ UNCHANGED <<board, srch>>

\* MinMaxState::possible_moves().collect() on the root state
PossibleMoves ==
    /\ pc = "rooted" /\ fault = NoFault
    /\ out' = [op |-> "possible_moves", arg |-> None, ret |-> possible_moves(root_state)]
    /\ UNCHANGED <<board, root_state, cps, pre, pc, srch, fault>>

\* the call that set the root state returns
Return ==
    /\ pc = "rooted" /\ fault = NoFault
    /\ root_state' = NoState
    /\ pc' = "idle"
    /\ out' = [op |-> "return", arg |-> None, ret |-> TRUE]
    /\ UNCHANGED <<board, cps, pre, srch, fault>>

(***************************************************************************)
(* MinMax::best_move and AIMinMaxInterface::heuristic, one step per        *)
(* checkpoint operation.  srch holds their locals:                         *)
(*   moves   possible_moves collected at the root                          *)
(*   idx     the candidate the map closure is at (1-based)                 *)
(*   best    the (mv, heuristic) pair max_by_key holds so far              *)
(*   k       the rollouts of the current candidate that are finished       *)
(*   hsum    the sum of their scores                                       *)
(*   scores  history: the heuristic of every candidate evaluated so far    *)
(*   root    history: root_state when best_move was entered                *)
(*   state   history: the caller's BoardState when best_move was entered   *)
(***************************************************************************)
ai_player == Blue

\* scoring a finished rollout panics on a Free cell
score_panics(b) == \E i \in DOMAIN b.cellstates : b.cellstates[i] = Free

\* the score that counts the cells of ai_player and nothing against them
RECURSIVE score_from_ai_only(_, _)
score_from_ai_only(b, i) ==
    IF i >= (b.width - 1) * (b.height - 1) THEN 0
    ELSE (IF b.cellstates[i] = ai_player THEN 1 ELSE 0) + score_from_ai_only(b, i + 1)

\* the score of a finished rollout: +1 for a cell of ai_player, -1 for a cell
\* of the other player
RECURSIVE score_from(_, _)
score_from(b, i) ==
    IF i >= (b.width - 1) * (b.height - 1) THEN 0
    ELSE (IF b.cellstates[i] = ai_player THEN 1 ELSE -1) + score_from(b, i + 1)

score(b) == score_from(b, 0)

\* max_by_key keeping the earlier of two elements with equal keys
max_by_key_step_first(best, elem) ==
    IF best = None THEN Some(elem)
    ELSE IF best[1].heuristic >= elem.heuristic THEN best
    ELSE Some(elem)

\* max_by_key keeps the later of two elements with equal keys
max_by_key_step(best, elem) ==
    IF best = None THEN Some(elem)
    ELSE IF best[1].heuristic > elem.heuristic THEN best
    ELSE Some(elem)

\* best_move is entered: the possible moves of the root are collected
BestMove ==
    /\ pc = "rooted" /\ fault = NoFault
    /\ Cardinality(FreeBars(root_state.board_state)) <= MaxSearchFree
    /\ srch' = [moves |-> possible_moves(root_state), idx |-> 1, best |-> None,
                k |-> 0, hsum |-> 0, scores |-> << >>,
                root |-> root_state, state |-> board]
    /\ pc' = "bm_iter"
    /\ out' = [op |-> "best_move_enter", arg |-> None, ret |-> TRUE]
    /\ UNCHANGED <<board, root_state, cps, pre, fault>>

\* the map closure of best_move starts on the next candidate: checkpoint and
\* apply(mv)
Candidate ==
    /\ pc = "bm_iter" /\ fault = NoFault
    /\ srch.idx <= Len(srch.moves)
    /\ LET mv == srch.moves[srch.idx]
           r == apply_move(root_state, mv)
       IN  /\ root_state' = r.state
           /\ cps' = Append(cps, 1)
           /\ pre' = Append(pre, root_state.board_state)
           /\ fault' = IF r.ret THEN NoFault ELSE "applying move failed"
           /\ out' = [op |-> "candidate", arg |-> mv, ret |-> r.ret]
    /\ srch' = [srch EXCEPT !.k = 0, !.hsum = 0]
    /\ pc' = "heur"
    /\ UNCHANGED <<board>>

\* heuristic: the next rollout opens its checkpoint
RolloutOpen ==
    /\ pc = "heur" /\ fault = NoFault
    /\ srch.k < nr_tests
    /\ cps' = Append(cps, 0)
    /\ pre' = Append(pre, root_state.board_state)
    /\ pc' = "rollout"
    /\ out' = [op |-> "rollout_open", arg |-> None, ret |-> TRUE]
    /\ UNCHANGED <<board, root_state, srch, fault>>

\* the apply of a rollout with mutation_count left as it is
RolloutMove_no_count(mv) ==
    /\ pc = "rollout" /\ fault = NoFault
    /\ LET r == apply_move(root_state, mv)
       IN  /\ root_state' = r.state
           /\ fault' = IF r.ret THEN NoFault ELSE "applying move failed"
           /\ out' = [op |-> "rollout_move", arg |-> mv, ret |-> r.ret]
    /\ UNCHANGED <<board, cps, pre, pc, srch>>

\* heuristic: random_free_move gave Some(mv), which is applied
RolloutMove(mv) ==
    /\ pc = "rollout" /\ fault = NoFault
    /\ LET r == apply_move(root_state, mv)
       IN  /\ root_state' = r.state
           /\ cps' = [cps EXCEPT ![Len(cps)] = @ + 1]
           /\ fault' = IF r.ret THEN NoFault ELSE "applying move failed"
           /\ out' = [op |-> "rollout_move", arg |-> mv, ret |-> r.ret]
    /\ UNCHANGED <<board, pre, pc, srch>>

\* heuristic: random_free_move gave None; the rollout is scored and its
\* checkpoint dropped
RolloutEnd ==
    /\ pc = "rollout" /\ fault = NoFault
    /\ None \in random_free_move(root_state)
    /\ LET sc == score(root_state.board_state)
           n == Len(cps)
           r == undo_moves(root_state, cps[n])
       IN  IF score_panics(root_state.board_state)
           THEN /\ fault' = "found free cell in completed board"
                /\ out' = [op |-> "rollout_end", arg |-> None, ret |-> FALSE]
                /\ UNCHANGED <<root_state, cps, pre, pc, srch>>
           ELSE /\ root_state' = r.state
                /\ cps' = SubSeq(cps, 1, n - 1)
                /\ pre' = SubSeq(pre, 1, n - 1)
                /\ fault' = IF r.fault # NoFault THEN r.fault
                            ELSE IF ~r.ret THEN "undo move failed" ELSE NoFault
                /\ srch' = [srch EXCEPT !.k = @ + 1, !.hsum = @ + sc]
                /\ pc' = "heur"
                /\ out' = [op |-> "rollout_end", arg |-> pre[n], ret |-> sc]
    /\ UNCHANGED <<board>>

\* heuristic returns and max_by_key takes the pair, with the candidate's
\* checkpoint forgotten instead of dropped
HeuristicReturn_no_drop ==
    /\ pc = "heur" /\ fault = NoFault
    /\ srch.k = nr_tests
    /\ LET n == Len(cps)
           elem == [mv |-> srch.moves[srch.idx], heuristic |-> srch.hsum]
       IN  /\ cps' = SubSeq(cps, 1, n - 1)
           /\ pre' = SubSeq(pre, 1, n - 1)
           /\ srch' = [srch EXCEPT !.idx = @ + 1,
                                   !.best = max_by_key_step(@, elem),
                                   !.scores = Append(@, srch.hsum)]
           /\ out' = [op |-> "heuristic", arg |-> pre[n], ret |-> srch.hsum]
    /\ pc' = "bm_iter"
    /\ UNCHANGED <<board, root_state, fault>>

\* heuristic returns the sum; the candidate's checkpoint is dropped and
\* max_by_key takes the pair (mv, heuristic)
HeuristicReturn ==
    /\ pc = "heur" /\ fault = NoFault
    /\ srch.k = nr_tests
    /\ LET n == Len(cps)
           r == undo_moves(root_state, cps[n])
           elem == [mv |-> srch.moves[srch.idx], heuristic |-> srch.hsum]
       IN  /\ root_state' = r.state
           /\ cps' = SubSeq(cps, 1, n - 1)
           /\ pre' = SubSeq(pre, 1, n - 1)
           /\ fault' = IF r.fault # NoFault THEN r.fault
                       ELSE IF ~r.ret THEN "undo move failed" ELSE NoFault
           /\ srch' = [srch EXCEPT !.idx = @ + 1,
                                   !.best = max_by_key_step(@, elem),
                                   !.scores = Append(@, srch.hsum)]
           /\ out' = [op |-> "heuristic", arg |-> pre[n], ret |-> srch.hsum]
    /\ pc' = "bm_iter"
    /\ UNCHANGED <<board>>

\* best_move returns the move of the pair max_by_key ended with
BestMoveReturn ==
    /\ pc = "bm_iter" /\ fault = NoFault
    /\ srch.idx > Len(srch.moves)
    /\ out' = [op |-> "best_move", arg |-> srch,
               ret |-> IF srch.best = None THEN None ELSE Some(srch.best[1].mv)]
    /\ srch' = NoSearch
    /\ pc' = "rooted"
    /\ UNCHANGED <<board, root_state, cps, pre, fault>>

\* the moves the caller hands to a checkpoint: the bars free in the root state
LegalMoves == IF pc = "cp" THEN FreeBars(root_state.board_state) ELSE {}

Next ==
    \/ \E bar \in AllBars(board) : DoMove(bar)
    \/ \E p \in Player : Restart(p)
    \/ SetRootState
    \/ Checkpoint
    \/ \E mv \in LegalMoves : Apply(mv)
    \/ Drop
    \/ PossibleMoves
    \/ Return

Spec == Init /\ [][Next]_vars

\* the moves random_free_move can hand to a rollout
RolloutDraws ==
    IF pc = "rollout" /\ fault = NoFault
    THEN {r[1] : r \in random_free_move(root_state) \ {None}} ELSE {}

NextSearch ==
    \/ \E bar \in AllBars(board) : DoMove(bar)
    \/ \E p \in Player : Restart(p)
    \/ SetRootState
    \/ BestMove
    \/ Candidate
    \/ RolloutOpen
    \/ \E mv \in RolloutDraws : RolloutMove(mv)
    \/ RolloutEnd
    \/ HeuristicReturn
    \/ BestMoveReturn
    \/ Return

SpecSearch == Init /\ [][NextSearch]_vars

(***************************************************************************)
(* best_move runs to its end once it is entered: it is one call of         *)
(* sequential code, so a step of it that can be taken is taken.  Every     *)
(* step of it changes pc or the count of the innermost checkpoint.         *)
(***************************************************************************)
SearchStep ==
    \/ Candidate
    \/ RolloutOpen
    \/ \E mv \in RolloutDraws : RolloutMove(mv)
    \/ RolloutEnd
    \/ HeuristicReturn
    \/ BestMoveReturn

\* the searches whose termination is checked start from the boards with at
\* most MaxFairDots dots
InitFair == Init /\ board.width * board.height <= MaxFairDots

SpecSearchFair == InitFair /\ [][NextSearch]_vars /\ WF_<<pc, cps>>(SearchStep)

(***************************************************************************)
(* Legal play through checkpoints of both kinds: the caller's own          *)
(* checkpoint and the nested checkpoints of best_move.                     *)
(***************************************************************************)
NextAll ==
    \/ \E bar \in AllBars(board) : DoMove(bar)
    \/ \E p \in Player : Restart(p)
    \/ SetRootState
    \/ Checkpoint
    \/ \E mv \in LegalMoves : Apply(mv)
    \/ Drop
    \/ PossibleMoves
    \/ BestMove
    \/ Candidate
    \/ RolloutOpen
    \/ \E mv \in RolloutDraws : RolloutMove(mv)
    \/ RolloutEnd
    \/ HeuristicReturn
    \/ BestMoveReturn
    \/ Return

SpecAll == Init /\ [][NextAll]_vars

(***************************************************************************)
(* Game: the board with the AI that answers the human.  Game::do_move is   *)
(* one step; the searches it runs are computed over every outcome of their *)
(* random draws.  A result carries the fault that ended it, if any.        *)
(***************************************************************************)
\* the fault of a drop that ran _undo_moves with result u
drop_fault(u) ==
    IF u.fault # NoFault THEN u.fault
    ELSE IF ~u.ret THEN "undo move failed" ELSE NoFault

\* one rollout of heuristic from the checkpoint's opening to its drop, count
\* being the checkpoint's mutation_count: the set of [score, state, fault]
\* it can end with
RECURSIVE rollout(_, _)
rollout(state, count) ==
    UNION {IF r = None
           THEN IF score_panics(state.board_state)
                THEN {[score |-> 0, state |-> state,
                       fault |-> "found free cell in completed board"]}
                ELSE LET u == undo_moves(state, count)
                     IN  {[score |-> score(state.board_state), state |-> u.state,
                           fault |-> drop_fault(u)]}
           ELSE LET a == apply_move(state, r[1])
                IN  IF a.ret THEN rollout(a.state, count + 1)
                    ELSE {[score |-> 0, state |-> a.state,
                           fault |-> "applying move failed"]}
           : r \in random_free_move(state)}

\* the rollouts k+1 .. nr_tests of heuristic; acc is the set of
\* [hsum, state, fault] the first k rollouts can end with, and first the
\* outcomes of a rollout from the state heuristic was called with
RECURSIVE heuristic_from(_, _, _)
heuristic_from(acc, k, first) ==
    IF k = nr_tests THEN acc
    ELSE heuristic_from(
             {a \in acc : a.fault # NoFault}
             \cup UNION {LET rs == IF st = first.state THEN first.rs
                                   ELSE rollout(st, 0)
                         IN  {[hsum |-> a.hsum + r.score, state |-> r.state,
                               fault |-> r.fault] :
                                 a \in {x \in acc : x.fault = NoFault /\ x.state = st},
                                 r \in rs}
                         : st \in {x.state : x \in {y \in acc : y.fault = NoFault}}},
             k + 1, first)

\* AIMinMaxInterface::heuristic: the set of [hsum, state, fault]
heuristic(state) ==
    heuristic_from({[hsum |-> 0, state |-> state, fault |-> NoFault]}, 0,
                   [state |-> state, rs |-> rollout(state, 0)])

\* the map and max_by_key of best_move from candidate idx on; acc is the set
\* of [best, state, fault] the candidates before idx can end with
RECURSIVE best_move_from(_, _, _)
best_move_from(acc, moves, idx) ==
    IF idx > Len(moves) THEN acc
    ELSE best_move_from(
             {a \in acc : a.fault # NoFault}
             \cup UNION {LET applied == apply_move(st, moves[idx])
                             hs == IF applied.ret THEN heuristic(applied.state) ELSE {}
                         IN  IF ~applied.ret
                             THEN {[best |-> None, state |-> applied.state,
                                    fault |-> "applying move failed"]}
                             ELSE UNION {
                                 IF h.fault # NoFault
                                 THEN {[best |-> None, state |-> h.state,
                                        fault |-> h.fault]}
                                 ELSE LET u == undo_moves(h.state, 1)
                                      IN  {[best |-> max_by_key_step(a.best,
                                                [mv |-> moves[idx], heuristic |-> h.hsum]),
                                            state |-> u.state,
                                            fault |-> drop_fault(u)] :
                                              a \in {x \in acc : x.fault = NoFault
                                                                  /\ x.state = st}}
                                 : h \in hs}
                         : st \in {x.state : x \in {y \in acc : y.fault = NoFault}}},
             moves, idx + 1)

\* MinMax::best_move: the set of [ret, state, fault], ret the Option returned
best_move(root) ==
    {[ret |-> IF a.best = None THEN None ELSE Some(a.best[1].mv),
      state |-> a.state, fault |-> a.fault] :
        a \in best_move_from({[best |-> None, state |-> root, fault |-> NoFault]},
                             possible_moves(root), 1)}

\* AIMinMax::next_move
next_move(state) == best_move(AIStateFrom(state))

\* the AI answers once and the loop is left whoever's turn it is then
ai_loop_once(b, root, asked) ==
    IF b.cur_turn # ai_player
    THEN {[board |-> b, root |-> root, asked |-> asked, failed |-> FALSE,
           fault |-> NoFault]}
    ELSE {LET r == IF ai_move.ret = None THEN [board |-> b, ret |-> FALSE]
                   ELSE do_move(b, ai_move.ret[1])
          IN  [board |-> r.board, root |-> ai_move.state, asked |-> asked + 1,
               failed |-> ~r.ret, fault |-> ai_move.fault]
          : ai_move \in next_move(b)}

\* the while loop of Game::do_move, entered with board b after asked calls
\* of next_move that left root in the AI: the set of
\* [board, root, asked, failed, fault] it can end with, failed telling that
\* the "AI move failed" branch was taken
RECURSIVE ai_loop(_, _, _)
ai_loop(b, root, asked) ==
    IF b.cur_turn # ai_player
    THEN {[board |-> b, root |-> root, asked |-> asked, failed |-> FALSE,
           fault |-> NoFault]}
    ELSE UNION {
        IF ai_move.fault # NoFault
        THEN {[board |-> b, root |-> ai_move.state, asked |-> asked + 1,
               failed |-> FALSE, fault |-> ai_move.fault]}
        ELSE LET r == IF ai_move.ret = None THEN [board |-> b, ret |-> FALSE]
                      ELSE do_move(b, ai_move.ret[1])
             IN  IF ~r.ret
                 THEN {[board |-> r.board, root |-> ai_move.state,
                        asked |-> asked + 1, failed |-> TRUE, fault |-> NoFault]}
                 ELSE ai_loop(r.board, ai_move.state, asked + 1)
        : ai_move \in next_move(b)}

\* Game::do_move without the early return on a rejected player move
game_do_move_no_return(b, root, bar) ==
    LET player_move == do_move(b, bar)
    IN  {[board |-> e.board, root |-> e.root, asked |-> e.asked,
          failed |-> e.failed, fault |-> e.fault, ret |-> player_move.ret,
          human |-> player_move.board] :
            e \in ai_loop(player_move.board, root, 0)}

\* Game::do_move: [board, root, asked, failed, fault, ret, human], human
\* being the board after the player's move
game_do_move(b, root, bar) ==
    LET player_move == do_move(b, bar)
    IN  IF ~player_move.ret
        THEN {[board |-> player_move.board, root |-> root, asked |-> 0,
               failed |-> FALSE, fault |-> NoFault, ret |-> FALSE,
               human |-> player_move.board]}
        ELSE {[board |-> e.board, root |-> e.root, asked |-> e.asked,
               failed |-> e.failed, fault |-> e.fault, ret |-> TRUE,
               human |-> player_move.board] :
                 e \in ai_loop(player_move.board, root, 0)}

\* Game::do_move(bar), as ClickBar calls it.  out.arg keeps the call: the
\* bar, the board before it, the board after the player's move, the calls
\* of next_move and whether the loop left through "AI move failed".  The
\* root state a search leaves in the AI is replaced by set_root_state before
\* it is read again, and is forgotten as in Return
GameDoMove(bar) ==
    /\ pc = "idle" /\ fault = NoFault
    /\ \E g \in game_do_move(board, root_state, bar) :
          /\ board' = g.board
          /\ fault' = g.fault
          /\ out' = [op |-> "game_do_move",
                     arg |-> [bar |-> bar, before |-> board, human |-> g.human,
                              asked |-> g.asked, failed |-> g.failed],
                     ret |-> g.ret]
    /\ UNCHANGED <<root_state, cps, pre, pc, srch>>

\* Game::restart(starting_player), as StartGame calls it
GameRestart(starting_player) == Restart(starting_player)

NextGame ==
    \/ \E bar \in AllBars(board) : GameDoMove(bar)
    \/ \E p \in {Red, Blue} : GameRestart(p)

SpecGame == Init /\ [][NextGame]_vars

(***************************************************************************)
(* random_free_move called on the root state of every board of a game.     *)
(***************************************************************************)
\* intern::random_free_move(&state, rng) returns r, one of the values the
\* draws of the rng can lead to
RandomFreeMove(r) ==
    /\ pc = "rooted" /\ fault = NoFault
    /\ out' = [op |-> "random_free_move", arg |-> None, ret |-> r]
    /\ UNCHANGED <<board, root_state, cps, pre, pc, srch, fault>>

\* the values random_free_move can return in the state at hand
SamplerResults == IF pc = "rooted" THEN random_free_move(root_state) ELSE {}

NextSampler ==
    \/ \E bar \in AllBars(board) : DoMove(bar)
    \/ \E p \in Player : Restart(p)
    \/ SetRootState
    \/ \E r \in SamplerResults : RandomFreeMove(r)
    \/ Return

SpecSampler == Init /\ [][NextSampler]_vars

(***************************************************************************)
(* A checkpoint handed any bar of the board.  apply on a bar that is not   *)
(* Free fails its assert after mutation_count was incremented and the move *)
(* pushed.  What the panic does next is the build's choice: with           *)
(* panic = "unwind" the checkpoints in scope are dropped, innermost first, *)
(* and a panic raised by a drop during the unwinding aborts the process;   *)
(* with panic = "abort" nothing more runs.                                 *)
(***************************************************************************)
\* the moves a caller can hand to a checkpoint: every bar of the board, for
\* the first MaxApplies applies of the checkpoint
ApplyInputs ==
    IF pc = "cp" /\ cps[Len(cps)] < MaxApplies
    THEN AllBars(root_state.board_state) ELSE {}

\* MinMaxStateCheckpoint::drop run by the unwinding of the panic of apply
Unwind ==
    /\ pc = "cp" /\ fault = "applying move failed"
    /\ LET n == Len(cps)
           r == undo_moves(root_state, cps[n])
           ok == r.fault = NoFault /\ r.ret
       IN  /\ root_state' = r.state
           /\ cps' = SubSeq(cps, 1, n - 1)
           /\ pre' = SubSeq(pre, 1, n - 1)
           /\ fault' = IF ok THEN fault ELSE "panic while unwinding"
           /\ pc' = IF ~ok THEN "aborted" ELSE IF n = 1 THEN "unwound" ELSE "cp"
           /\ out' = [op |-> "unwind", arg |-> pre[n], ret |-> cps[n]]
    /\ UNCHANGED <<board, srch>>

\* the panic of apply in a build that aborts on panic: no drop runs
Abort ==
    /\ pc = "cp" /\ fault = "applying move failed"
    /\ pc' = "aborted"
    /\ out' = [op |-> "abort", arg |-> pre[Len(pre)], ret |-> cps[Len(cps)]]
    /\ UNCHANGED <<board, root_state, cps, pre, srch, fault>>

NextFault ==
    \/ \E bar \in AllBars(board) : DoMove(bar)
    \/ \E p \in Player : Restart(p)
    \/ SetRootState
    \/ Checkpoint
    \/ \E mv \in ApplyInputs : Apply(mv)
    \/ Drop
    \/ Unwind
    \/ Abort
    \/ Return

SpecFault == Init /\ [][NextFault]_vars

(***************************************************************************)
(* The game as a caller of the public do_move can drive it: a BarId is     *)
(* three public fields, so col and row are any u32.                        *)
(***************************************************************************)
\* BarIds with col and row up to one past the largest dimension
AnyBars(b) ==
    {BarId(d, c, r) : d \in {Vertical, Horizontal},
                      c \in 0 .. b.width, r \in 0 .. b.height}

\* BoardState::do_move(bar) for any BarId
DoMoveAny(bar) ==
    /\ pc = "idle" /\ fault = NoFault
    /\ LET r == do_move_indexed(board, bar)
       IN  /\ board' = r.board
           /\ fault' = IF r.panic THEN "index out of bounds" ELSE NoFault
           /\ out' = [op |-> "do_move", arg |-> bar, ret |-> r.ret]
    /\ UNCHANGED <<root_state, cps, pre, pc, srch>>

NextRange ==
    \/ \E bar \in AnyBars(board) : DoMoveAny(bar)
    \/ \E p \in Player : Restart(p)

SpecRange == Init /\ [][NextRange]_vars

(***************************************************************************)
(* Properties                                                              *)
(***************************************************************************)
\* the board the checkpoints work on, when there is one
Rooted == pc # "idle"

\* every cell of b as <<col, row>>
Cells(b) == (0 .. (b.width - 2)) \X (0 .. (b.height - 2))

\* the four bars around cell <<col, row>>
BarsAround(c) ==
    {BarId(Vertical, c[1], c[2]), BarId(Vertical, c[1] + 1, c[2]),
     BarId(Horizontal, c[1], c[2]), BarId(Horizontal, c[1], c[2] + 1)}

\* C1: closing a checkpoint through which N legal moves were applied leaves
\* the board (every bar, every cell, cur_turn) as it was when the checkpoint
\* was opened, with no fault and nothing left on the mutation stack.
C1_RoundTrip ==
    out.op = "drop" =>
        /\ fault = NoFault
        /\ root_state.board_state = out.arg
        /\ root_state.mutation_stack = << >>

\* a checkpoint was closed after the last five moves of a game, which filled
\* both cells of a seven-bar board
C1_Witness ==
    /\ out.op = "drop"
    /\ out.ret = 5
    /\ Cardinality(AllBars(out.arg)) = 7
    /\ Cardinality(FreeBars(out.arg)) = 5
    /\ \A c \in Cells(out.arg) : cell_get(out.arg, c[1], c[2]) = Free

\* C2: do_move on a bar that is already taken returns false and leaves every
\* bar, every cell and cur_turn as they were.
C2_TakenBarRejected ==
    [][(out'.op = "do_move" /\ bar_get(board, out'.arg) # Free)
          => (out'.ret = FALSE /\ board' = board)]_vars

\* do_move has just returned false
C2_Witness ==
    /\ out.op = "do_move"
    /\ out.ret = FALSE
    /\ bar_get(board, out.arg) # Free

\* the cells a step gives an owner on the way from board b1 to board b2
Completed(b1, b2) ==
    {c \in Cells(b1) : cell_get(b1, c[1], c[2]) = Free /\ cell_get(b2, c[1], c[2]) # Free}

\* C3: a successful do_move passes the turn to the other player iff it
\* completed no cell; completing one or two cells leaves cur_turn with the
\* mover, who is the owner of the bar just placed.
C3_TurnInvariant ==
    [][(out'.op = "do_move" /\ out'.ret = TRUE)
          => /\ (board'.cur_turn = other(board.cur_turn)) <=> (Completed(board, board') = {})
             /\ (board'.cur_turn = board.cur_turn) <=> (Cardinality(Completed(board, board')) \in {1, 2})
             /\ bar_get(board', out'.arg) = board.cur_turn]_vars

\* the last do_move placed the bar between two cells and filled both
C3_Witness ==
    /\ out.op = "do_move"
    /\ out.ret = TRUE
    /\ Len(bar_neighbors(board, out.arg)) = 2
    /\ \A i \in 1 .. 2 :
          LET n == bar_neighbors(board, out.arg)[i]
          IN  cell_get(board, n[1], n[2]) = board.cur_turn

\* a cell of b has an owner iff its four bars are taken
CellsComplete(b) ==
    \A c \in Cells(b) :
        (cell_get(b, c[1], c[2]) # Free) <=> (\A bar \in BarsAround(c) : bar_get(b, bar) # Free)

\* on the way from b1 to b2 by placing bar, every cell that gets an owner gets
\* the player who placed bar, and no cell changes from one player to the other
OwnerIsMover(b1, b2, bar) ==
    /\ \A c \in Completed(b1, b2) :
          /\ cell_get(b2, c[1], c[2]) = b1.cur_turn
          /\ bar_get(b1, bar) = Free
          /\ bar_get(b2, bar) = b1.cur_turn
          /\ bar \in BarsAround(c)
    /\ \A c \in Cells(b1) :
          cell_get(b1, c[1], c[2]) # Free
              => cell_get(b2, c[1], c[2]) \in {Free, cell_get(b1, c[1], c[2])}

\* C4: in every state reached by do_move, checkpoint apply and undo, and
\* restart, a cell has an owner iff its four bars are taken, and a cell gets
\* its owner only from the move that places its last bar: the mover.
C4_CellCompleteness ==
    /\ [](CellsComplete(board) /\ (Rooted => CellsComplete(root_state.board_state)))
    /\ [][/\ Completed(board, board') # {} => out'.op = "do_move"
          /\ out'.op = "do_move" => OwnerIsMover(board, board', out'.arg)
          /\ (Rooted /\ Rooted') =>
                /\ Completed(root_state.board_state, root_state'.board_state) # {}
                      => out'.op = "apply"
                /\ out'.op = "apply"
                      => OwnerIsMover(root_state.board_state, root_state'.board_state,
                                      out'.arg)]_vars

\* inside a checkpoint, one cell has an owner and another has three bars taken
C4_Witness ==
    /\ pc = "cp"
    /\ root_state.mutation_stack # << >>
    /\ \E c \in Cells(root_state.board_state) :
          cell_get(root_state.board_state, c[1], c[2]) # Free
    /\ \E c \in Cells(root_state.board_state) :
          /\ cell_get(root_state.board_state, c[1], c[2]) = Free
          /\ Cardinality({bar \in BarsAround(c) :
                             bar_get(root_state.board_state, bar) # Free}) = 3

\* the bars and the cells that have an owner in b1 and none in b2
ErasedBars(b1, b2) ==
    {bar \in AllBars(b1) : bar_get(b1, bar) # Free /\ bar_get(b2, bar) = Free}

ErasedCells(b1, b2) ==
    {c \in Cells(b1) : cell_get(b1, c[1], c[2]) # Free /\ cell_get(b2, c[1], c[2]) = Free}

\* the step is an undo of the n moves on top of the mutation stack: it frees
\* exactly those bars, only cells next to them, and pops them
IsUndoOfStack(s1, s2, n) ==
    LET len == Len(s1.mutation_stack)
        undone == {s1.mutation_stack[k] : k \in (len - n + 1) .. len}
    IN  /\ n <= len
        /\ ErasedBars(s1.board_state, s2.board_state) = undone
        /\ s2.mutation_stack = SubSeq(s1.mutation_stack, 1, len - n)
        /\ \A c \in ErasedCells(s1.board_state, s2.board_state) :
              \E bar \in undone : bar \in BarsAround(c)

\* ownership erased from the root state is erased by an undo
UndoOnly ==
    (/\ Rooted /\ Rooted'
     /\ \/ ErasedBars(root_state.board_state, root_state'.board_state) # {}
        \/ ErasedCells(root_state.board_state, root_state'.board_state) # {})
        => /\ out'.op = "drop"
           /\ IsUndoOfStack(root_state, root_state', out'.ret)

\* C5 as stated: no bar or cell goes from owned to Free except in an undo
\* whose apply is on the mutation stack; do_move and restart erase nothing.
C5_NoEraseButUndo ==
    [][/\ ErasedBars(board, board') = {} /\ ErasedCells(board, board') = {}
       /\ UndoOnly]_vars

\* C5 amended: no bar or cell goes from owned to Free except in an undo whose
\* apply is on the mutation stack, or in restart, which frees every bar and
\* cell; do_move erases nothing.
C5_NoEraseButUndoOrRestart ==
    [][/\ (ErasedBars(board, board') # {} \/ ErasedCells(board, board') # {})
             => /\ out'.op = "restart"
                /\ FreeBars(board') = AllBars(board')
                /\ \A c \in Cells(board') : cell_get(board', c[1], c[2]) = Free
       /\ UndoOnly]_vars

\* a checkpoint has just undone three moves on a board that keeps an owned cell
C5_Witness ==
    /\ out.op = "drop"
    /\ out.ret = 3
    /\ \E c \in Cells(out.arg) : cell_get(out.arg, c[1], c[2]) # Free

\* C6: restart(p) leaves every bar and every cell Free, cur_turn = p, and the
\* width and height as they were: the board is the new board of that size
\* with p to move.
C6_Restart ==
    [][out'.op = "restart"
          => board' = [BoardStateNew(board.width, board.height)
                          EXCEPT !.cur_turn = out'.arg]]_vars

\* restart(Blue) has just run
C6_Witness ==
    /\ out.op = "restart"
    /\ out.arg = Blue
    /\ board.cur_turn = Blue
    /\ FreeBars(board) = AllBars(board)

\* the Free bars of one direction in row-major order (row by row, and by
\* column within a row), from slot <<col, row>> on
RECURSIVE FreeRowMajor(_, _, _, _)
FreeRowMajor(b, direction, col, row) ==
    LET cols == IF direction = Vertical THEN b.width ELSE b.width - 1
        rows == IF direction = Vertical THEN b.height - 1 ELSE b.height
        bar == BarId(direction, col, row)
    IN  IF row >= rows THEN << >>
        ELSE IF col >= cols THEN FreeRowMajor(b, direction, 0, row + 1)
        ELSE (IF bar_get(b, bar) = Free THEN <<bar>> ELSE << >>)
             \o FreeRowMajor(b, direction, col + 1, row)

EnumerationOrder(b) ==
    FreeRowMajor(b, Vertical, 0, 0) \o FreeRowMajor(b, Horizontal, 0, 0)

\* C7: possible_moves yields exactly the Free bars, each once and no taken
\* bar, the vertical ones in row-major order and then the horizontal ones in
\* row-major order.
C7_Enumeration ==
    out.op = "possible_moves" =>
        /\ out.ret = EnumerationOrder(root_state.board_state)
        /\ {out.ret[k] : k \in 1 .. Len(out.ret)} = FreeBars(root_state.board_state)
        /\ Len(out.ret) = Cardinality(FreeBars(root_state.board_state))

\* possible_moves ran on a board where the first vertical and the first
\* horizontal bar are taken and bars of both directions are Free
C7_Witness ==
    /\ out.op = "possible_moves"
    /\ bar_get(root_state.board_state, BarId(Vertical, 0, 0)) # Free
    /\ bar_get(root_state.board_state, BarId(Horizontal, 0, 0)) # Free
    /\ \E k \in 1 .. Len(out.ret) : out.ret[k].direction = Vertical
    /\ \E k \in 1 .. Len(out.ret) : out.ret[k].direction = Horizontal

\* C8: best_move returns None iff the root board has no Free bar; otherwise it
\* returns a bar that is Free on the root board, and the only Free bar when
\* there is just one.
C8_BestMoveResult ==
    out.op = "best_move" =>
        /\ (out.ret = None) <=> (FreeBars(board) = {})
        /\ out.ret # None => out.ret[1] \in FreeBars(board)
        /\ \A bar \in FreeBars(board) : FreeBars(board) = {bar} => out.ret = Some(bar)

\* best_move returned on a board with exactly one Free bar
C8_Witness ==
    /\ out.op = "best_move"
    /\ Cardinality(FreeBars(board)) = 1
    /\ out.ret # None

\* C9: best_move returns a move whose heuristic is the maximum over all root
\* moves, and of the moves with that maximum the last in enumeration order.
C9_TieBreak ==
    (out.op = "best_move" /\ out.ret # None) =>
        LET moves == out.arg.moves
            scores == out.arg.scores
        IN  /\ Len(scores) = Len(moves)
            /\ moves = EnumerationOrder(board)
            /\ \E i \in 1 .. Len(moves) :
                  /\ moves[i] = out.ret[1]
                  /\ \A j \in 1 .. Len(moves) : scores[j] <= scores[i]
                  /\ \A j \in (i + 1) .. Len(moves) : scores[j] < scores[i]

\* best_move returned after two root moves got the same heuristic
C9_Witness ==
    /\ out.op = "best_move"
    /\ Len(out.arg.scores) = 2
    /\ out.arg.scores[1] = out.arg.scores[2]
    /\ out.ret = Some(out.arg.moves[2])

\* a board with no Free bar has no Free cell and no possible move
Terminal(b) ==
    FreeBars(b) = {} =>
        /\ \A c \in Cells(b) : cell_get(b, c[1], c[2]) # Free
        /\ possible_moves(AIStateFrom(b)) = << >>

\* C10: on every reachable board where every bar is taken, every cell has an
\* owner and possible_moves is empty; the rollout's scoring never meets a
\* Free cell.
C10_TerminalExhaustive ==
    /\ fault # "found free cell in completed board"
    /\ Terminal(board)
    /\ Rooted => Terminal(root_state.board_state)

\* a rollout stands on a board with every bar taken, about to be scored
C10_Witness ==
    /\ pc = "rollout"
    /\ FreeBars(root_state.board_state) = {}
    /\ \A c \in Cells(root_state.board_state) :
          cell_get(root_state.board_state, c[1], c[2]) # Free

\* a BarId is out of range for its direction
OutOfRange(b, bar) == bar \notin AllBars(b)

\* C11: a do_move whose BarId is out of range for its direction returns false,
\* leaves the board as it was and raises no fault.
C11_OutOfRangeRejected ==
    [][(out'.op = "do_move" /\ OutOfRange(board, out'.arg))
        => (out'.ret = FALSE /\ board' = board /\ fault' = NoFault)]_vars

\* C12: apply on a bar that is not Free raises the fault "applying move
\* failed"; whenever apply returns, its move was carried out (it never
\* returns false); and apply on a move that possible_moves or
\* random_free_move gives for the current state raises no fault.
C12_ApplyFailsFatally ==
    [][out'.op = "apply" =>
        LET mv == out'.arg
            drawn == \/ \E i \in DOMAIN possible_moves(root_state) :
                            possible_moves(root_state)[i] = mv
                     \/ Some(mv) \in random_free_move(root_state)
        IN  /\ bar_get(root_state.board_state, mv) # Free
                   => fault' = "applying move failed"
            /\ fault' = NoFault => out'.ret = TRUE
            /\ drawn => (fault' = NoFault /\ out'.ret = TRUE)]_vars

\* apply was handed a bar that is Owned and raised its fault
C12_Witness ==
    /\ out.op = "apply"
    /\ bar_get(root_state.board_state, out.arg) # Free
    /\ fault = "applying move failed"
    /\ out.ret = FALSE

\* C13: however a checkpoint scope ends (drop, the unwinding of the fault of
\* apply, or the end of the process on that fault), the mutation_count moves
\* are undone: the board is the one the checkpoint was opened on and the
\* moves are off the mutation stack.
C13_RollbackOnEveryExit ==
    out.op \in {"drop", "unwind", "abort"} =>
        /\ root_state.board_state = out.arg
        /\ root_state.mutation_stack = << >>

\* C14: when best_move has returned, root_state (bars, cells, cur_turn and
\* mutation stack) is what it was when best_move was entered, the mutation
\* stack is empty and no checkpoint is open, and the BoardState of the caller
\* is what it was when best_move was entered.
C14_BestMovePure ==
    out.op = "best_move" =>
        /\ fault = NoFault
        /\ root_state = out.arg.root
        /\ root_state.mutation_stack = << >>
        /\ cps = << >>
        /\ board = out.arg.state

\* best_move returned a move after it had evaluated two candidates
C14_Witness ==
    /\ out.op = "best_move"
    /\ Len(out.arg.scores) = 2
    /\ out.ret # None

\* history: acc extended by the boards that carrying out stack[k], stack[k+1],
\* .. in turn gives, from the last board of acc
RECURSIVE History(_, _, _)
History(acc, stack, k) ==
    IF k > Len(stack) THEN acc
    ELSE History(Append(acc, do_move(acc[Len(acc)], stack[k]).board), stack, k + 1)

\* for each of the top count moves of the mutation stack of s, taken at the
\* moment the moves above it are undone: what _undo_moves infers about the
\* move is what happened when it was applied; boards[j] is the board before
\* and boards[j + 1] the board after move j of the stack
RECURSIVE UndoAgreesWithHistory(_, _, _)
UndoAgreesWithHistory(s, boards, count) ==
    IF count = 0 THEN TRUE
    ELSE LET j == Len(s.mutation_stack)
             b == s.board_state
             before == boards[j]
             after == boards[j + 1]
             inferred == point_scored(b, bar_neighbors(b, s.mutation_stack[j]), 1)
             undone == undo_one(s)
         IN  /\ (inferred = "scored") <=> (Completed(before, after) # {})
             /\ (inferred = "not_scored") <=> (Completed(before, after) = {})
             /\ undone.ret
             /\ undone.state.board_state.cur_turn = before.cur_turn
             /\ \A c \in Completed(before, after) :
                    cell_get(undone.state.board_state, c[1], c[2]) = Free
             /\ UndoAgreesWithHistory(undone.state, boards, count - 1)

\* C15: when a drop undoes its moves, last applied first, then for each of
\* them the inferred point_scored is true iff the move completed at least one
\* cell when it was applied, and the turn the undo restores is the turn of the
\* player who applied it; the cells it completed are Free again.
C15_UndoAgreesWithHistory ==
    [][out'.op = "drop" =>
        UndoAgreesWithHistory(root_state,
                              History(<<pre[1]>>, root_state.mutation_stack, 1),
                              cps[Len(cps)])]_vars

\* the four bars around the one cell of a board were applied to the empty
\* board and undone by one drop
C15_Witness ==
    /\ out.op = "drop"
    /\ out.ret = 4
    /\ AllBars(out.arg) = FreeBars(out.arg)
    /\ Cardinality(AllBars(out.arg)) = 4

\* the faults of a rollback: pop of an empty mutation stack, the assert on a
\* neighbour cell owned by other(cur_turn), and _undo_moves returning false
UndoFaults ==
    {"mutation stack empty during undo", "wrong cell state", "undo move failed"}

\* the sum of a sequence of numbers
RECURSIVE SumSeq(_)
SumSeq(q) == IF q = << >> THEN 0 ELSE q[1] + SumSeq(Tail(q))

\* C16: in legal play through checkpoints, nested or not, no rollback faults:
\* the mutation stack holds a move for every pop, no neighbour cell belongs to
\* other(cur_turn), the bar undone belongs to the inferred mover, and the
\* moves counted by the open checkpoints are the moves on the stack.
C16_UndoNeverFaults ==
    /\ fault \notin UndoFaults
    /\ Rooted => SumSeq(cps) = Len(root_state.mutation_stack)
    /\ out.op \in {"drop", "rollout_end", "heuristic"} => fault = NoFault

\* a rollout's checkpoint, nested in the candidate's, was rolled back over
\* moves that had completed a cell
C16_Witness ==
    /\ out.op = "rollout_end"
    /\ fault = NoFault
    /\ Len(cps) = 1
    /\ FreeBars(out.arg) # {}
    /\ \E c \in Cells(out.arg) : cell_get(out.arg, c[1], c[2]) = Free

\* the cells that have an owner in board b1 and are Free in board b2
ClearedCells(b1, b2) ==
    {c \in Cells(b1) : cell_get(b1, c[1], c[2]) # Free /\ cell_get(b2, c[1], c[2]) = Free}

\* for each of the top count moves of the mutation stack of s, taken at the
\* moment the moves above it are undone: the undo step frees the bar of the
\* move and no other bar, clears the cells the move completed and no other
\* cell, and changes no bar or cell in another way; boards[j] is the board
\* before and boards[j + 1] the board after move j of the stack
RECURSIVE UndoFrame(_, _, _)
UndoFrame(s, boards, count) ==
    IF count = 0 THEN TRUE
    ELSE LET j == Len(s.mutation_stack)
             m == s.mutation_stack[j]
             b == s.board_state
             undone == undo_one(s)
             u == undone.state.board_state
         IN  /\ undone.ret
             /\ bar_get(b, m) # Free /\ bar_get(u, m) = Free
             /\ \A bar \in AllBars(b) \ {m} : bar_get(u, bar) = bar_get(b, bar)
             /\ ClearedCells(b, u) = Completed(boards[j], boards[j + 1])
             /\ \A c \in Cells(b) \ ClearedCells(b, u) :
                    cell_get(u, c[1], c[2]) = cell_get(b, c[1], c[2])
             /\ \A c \in Cells(b) :
                    cell_get(boards[j], c[1], c[2]) # Free
                        => cell_get(u, c[1], c[2]) = cell_get(boards[j], c[1], c[2])
             /\ UndoFrame(undone.state, boards, count - 1)

\* C17: each undo step of a drop sets the bar of its move to Free and leaves
\* every other bar as it is, and clears exactly the cells that move completed
\* when it was applied: a cell that had its owner before the move keeps it.
C17_UndoFrame ==
    [][out'.op = "drop" =>
        UndoFrame(root_state, History(<<pre[1]>>, root_state.mutation_stack, 1),
                  cps[Len(cps)])]_vars

\* a drop undid every move of the rest of a game, played from a board on
\* which one cell had its owner and another was Free
C17_Witness ==
    /\ out.op = "drop"
    /\ out.ret = Cardinality(FreeBars(out.arg))
    /\ \E c \in Cells(out.arg) : cell_get(out.arg, c[1], c[2]) = Free
    /\ \E c \in Cells(out.arg) : cell_get(out.arg, c[1], c[2]) # Free
    /\ \E c \in Cells(out.arg) : cell_get(root_state.board_state, c[1], c[2]) # Free

\* placing bar takes board b1 to board b2 and changes nothing else: bar goes
\* from Free to the player whose turn it is in b1, every other bar keeps its
\* value, and a cell changes only from Free to that player, only if bar is one
\* of its four bars and all four are taken in b2
MoveFrame(b1, b2, bar) ==
    /\ b2.width = b1.width /\ b2.height = b1.height
    /\ bar_get(b1, bar) = Free
    /\ bar_get(b2, bar) = b1.cur_turn
    /\ \A e \in AllBars(b1) \ {bar} : bar_get(b2, e) = bar_get(b1, e)
    /\ \A c \in Cells(b1) :
          cell_get(b2, c[1], c[2]) # cell_get(b1, c[1], c[2])
              => /\ cell_get(b1, c[1], c[2]) = Free
                 /\ cell_get(b2, c[1], c[2]) = b1.cur_turn
                 /\ bar \in BarsAround(c)
                 /\ \A e \in BarsAround(c) : bar_get(b2, e) # Free

\* on the way from board b1 to board b2 no bar and no cell of one player
\* becomes the other player's
NoReassign(b1, b2) ==
    /\ \A e \in AllBars(b1) :
          bar_get(b1, e) # Free => bar_get(b2, e) \in {Free, bar_get(b1, e)}
    /\ \A c \in Cells(b1) :
          cell_get(b1, c[1], c[2]) # Free
              => cell_get(b2, c[1], c[2]) \in {Free, cell_get(b1, c[1], c[2])}

\* C18: a do_move that returns true, of the game or of a checkpoint apply,
\* changes exactly the bar it places (Free to the player whose turn it was)
\* and gives to that player exactly cells that were Free, border the bar and
\* are complete; and no step hands a bar or a cell of one player to the other.
C18_MoveFrame ==
    [][/\ (out'.op = "do_move" /\ out'.ret = TRUE)
            => MoveFrame(board, board', out'.arg)
       /\ (out'.op = "apply" /\ out'.ret = TRUE)
            => MoveFrame(root_state.board_state, root_state'.board_state, out'.arg)
       /\ NoReassign(board, board')
       /\ (Rooted /\ Rooted') => NoReassign(root_state.board_state,
                                            root_state'.board_state)]_vars

\* the last do_move completed a cell for Red on a board where Blue owns the
\* other cell
C18_Witness ==
    /\ out.op = "do_move"
    /\ out.ret = TRUE
    /\ bar_get(board, out.arg) = Red
    /\ \E c \in Cells(board) :
          out.arg \in BarsAround(c) /\ cell_get(board, c[1], c[2]) = Red
    /\ \E c \in Cells(board) : cell_get(board, c[1], c[2]) = Blue

\* the candidate best_move is evaluating
Cand == srch.moves[srch.idx]

\* the one-move-deep state: the root of the search plus the candidate
OneDeep ==
    [board_state |-> do_move(srch.root.board_state, Cand).board,
     mutation_stack |-> <<Cand>>]

\* C19: inside heuristic, whenever no rollout is open (before the first, after
\* each one closed, and when the candidate's checkpoint starts its rollback)
\* the state is the one-move-deep state and the candidate's checkpoint is the
\* only one open, counting one move; each rollout opens on that state, and
\* while it runs its checkpoint is nested in the candidate's and counts the
\* moves above the candidate on the stack.
C19_NestedUnwind ==
    /\ pc = "heur" =>
          /\ fault = NoFault
          /\ root_state = OneDeep
          /\ cps = <<1>>
          /\ pre = <<srch.root.board_state>>
    /\ out.op = "rollout_open" =>
          /\ root_state = OneDeep
          /\ cps = <<1, 0>>
    /\ pc = "rollout" =>
          /\ Len(cps) = 2 /\ cps[1] = 1
          /\ pre = <<srch.root.board_state, OneDeep.board_state>>
          /\ root_state.mutation_stack[1] = Cand
          /\ Len(root_state.mutation_stack) = 1 + cps[2]
    /\ out.op = "heuristic" =>
          /\ cps = << >>
          /\ root_state = srch.root

\* the fifth rollout of a candidate closed after it had applied a move
C19_Witness ==
    /\ out.op = "rollout_end"
    /\ pc = "heur"
    /\ srch.k = nr_tests
    /\ FreeBars(out.arg) # {}
    /\ root_state.board_state = out.arg

\* best_move has been entered and has not returned
InSearch == pc \in {"bm_iter", "heur", "rollout"}

\* C20: a rollout ends only on a board with no Free bar, after as many applies
\* as the board it was opened on had Free bars, and without a fault; every
\* rollout that is open gets closed and every best_move that is entered
\* returns.
C20_RolloutTerminates ==
    /\ [][out'.op = "rollout_end" =>
            /\ fault' = NoFault
            /\ FreeBars(root_state.board_state) = {}
            /\ cps[Len(cps)] = Cardinality(FreeBars(pre[Len(pre)]))]_vars
    /\ [][out'.op = "rollout_move" =>
            /\ bar_get(root_state.board_state, out'.arg) = Free
            /\ Cardinality(FreeBars(root_state'.board_state))
                  = Cardinality(FreeBars(root_state.board_state)) - 1]_vars
    /\ (pc = "rollout") ~> (pc = "heur")
    /\ InSearch ~> (out.op = "best_move")

\* a rollout opened on a board with one Free bar has applied one move and is
\* on a board with none
C20_Witness ==
    /\ pc = "rollout"
    /\ cps[Len(cps)] = 1
    /\ Cardinality(FreeBars(pre[Len(pre)])) = 1
    /\ FreeBars(root_state.board_state) = {}

\* the cells of board b that belong to player p
CellsOf(b, p) == {c \in Cells(b) : cell_get(b, c[1], c[2]) = p}

\* C21: the score of a rollout is the number of cells of ai_player minus the
\* number of cells of the other player on the board the rollout ended on, and
\* every cell that had its owner when the rollout was opened has the same
\* owner there; heuristic adds the scores of its nr_tests rollouts up from 0
\* and returns the sum, which is between -nr_tests * C and nr_tests * C for a
\* board of C cells.
C21_EvaluatorScore ==
    /\ [][out'.op = "rollout_end" =>
            LET b == root_state.board_state
                opened == pre[Len(pre)]
            IN  /\ out'.ret = Cardinality(CellsOf(b, ai_player))
                                - Cardinality(CellsOf(b, other(ai_player)))
                /\ Cardinality(CellsOf(b, ai_player))
                      + Cardinality(CellsOf(b, other(ai_player)))
                      = Cardinality(Cells(b))
                /\ \A c \in Cells(b) :
                       cell_get(opened, c[1], c[2]) # Free
                           => cell_get(b, c[1], c[2]) = cell_get(opened, c[1], c[2])
                /\ srch'.hsum = srch.hsum + out'.ret
                /\ srch'.k = srch.k + 1]_vars
    /\ [][out'.op = "candidate" => (srch'.hsum = 0 /\ srch'.k = 0)]_vars
    /\ [][out'.op = "heuristic" =>
            LET C == Cardinality(Cells(root_state.board_state))
            IN  /\ srch.k = nr_tests
                /\ out'.ret = srch.hsum
                /\ out'.ret >= -(nr_tests * C)
                /\ out'.ret <= nr_tests * C]_vars

\* heuristic returned 0 on a board of two cells, one of which had its owner
\* before the candidate was applied: each rollout ended with one cell each
C21_Witness ==
    /\ out.op = "heuristic"
    /\ out.ret = 0
    /\ Cardinality(Cells(out.arg)) = 2
    /\ \E c \in Cells(out.arg) : cell_get(out.arg, c[1], c[2]) # Free

\* what a call of random_free_move changes: the record of the last operation
SamplerOut == <<out.op, IF out.op = "random_free_move" THEN out.ret ELSE None>>

\* C22: whatever the draws, random_free_move returns Some(e) with e a Free bar
\* of the state when the state has a Free bar and None when it has none; so
\* it returns None iff no bar is Free and never an Owned bar; and it leaves
\* the state as it is.
C22_SamplerResult ==
    [][out'.op = "random_free_move" =>
        LET free == FreeBars(root_state.board_state)
            r == out'.ret
        IN  /\ free # {} => (r # None /\ r[1] \in free)
            /\ (r = None) <=> (free = {})
            /\ r # None => bar_get(root_state.board_state, r[1]) = Free
            /\ root_state' = root_state
            /\ board' = board]_SamplerOut

\* random_free_move returned a bar of a board with two Free bars and five
\* Owned ones, where three draws can all miss
C22_Witness ==
    /\ out.op = "random_free_move"
    /\ out.ret # None
    /\ Cardinality(FreeBars(root_state.board_state)) = 2
    /\ Cardinality(AllBars(root_state.board_state)) = 7

\* bar lies on the outer border of board b
OnBorder(b, bar) ==
    IF bar.direction = Vertical
    THEN bar.col = 0 \/ bar.col = b.width - 1
    ELSE bar.row = 0 \/ bar.row = b.height - 1

\* C23: the four bars cell_is_full reads for a cell are the bars around it,
\* and for every bar in range bar_neighbors lists, once each, exactly the
\* cells of the board that have the bar among those four: one cell for a bar
\* on the outer border, two for any other, the same on the empty board of the
\* same size as on the board at hand.
C23_Geometry ==
    /\ \A c \in Cells(board) :
          cell_is_full(board, c[1], c[2])
              <=> (\A e \in BarsAround(c) : bar_get(board, e) # Free)
    /\ \A bar \in AllBars(board) :
          LET neighbors == bar_neighbors(board, bar)
              cells == {neighbors[i] : i \in DOMAIN neighbors}
          IN  /\ cells = {c \in Cells(board) : bar \in BarsAround(c)}
              /\ Cardinality(cells) = Len(neighbors)
              /\ Len(neighbors) \in {1, 2}
              /\ (Len(neighbors) = 1) <=> OnBorder(board, bar)
              /\ neighbors = bar_neighbors(BoardStateNew(board.width, board.height), bar)

\* the last do_move placed a bar between two cells, on a board where other
\* bars are taken, and completed neither
C23_Witness ==
    /\ out.op = "do_move"
    /\ out.ret = TRUE
    /\ ~OnBorder(board, out.arg)
    /\ Cardinality(FreeBars(board)) < Cardinality(AllBars(board)) - 2
    /\ \A i \in DOMAIN bar_neighbors(board, out.arg) :
          LET n == bar_neighbors(board, out.arg)[i]
          IN  cell_get(board, n[1], n[2]) = Free

\* the bars that are Free in board b1 and taken in board b2
TakenSince(b1, b2) ==
    {e \in AllBars(b1) : bar_get(b1, e) = Free /\ bar_get(b2, e) # Free}

\* C24: while a root state is set, the mutation stack is as long as the counts
\* of the open checkpoints add up to; its entries are, once each, the bars
\* that were Free in the root state and are taken now; and with no checkpoint
\* open the stack is empty and the state is the root state.
C24_StackAccounting ==
    Rooted =>
        LET stack == root_state.mutation_stack
            root == IF cps = << >> THEN root_state.board_state ELSE pre[1]
            taken == TakenSince(root, root_state.board_state)
        IN  /\ Len(stack) = SumSeq(cps)
            /\ Len(stack) = Cardinality(taken)
            /\ {stack[i] : i \in DOMAIN stack} = taken
            /\ Len(pre) = Len(cps)
            /\ cps = << >> => stack = << >>
            /\ InSearch => root = srch.root.board_state

\* a rollout has applied one move on top of the candidate: two checkpoints
\* are open and each counts one move
C24_Witness ==
    /\ pc = "rollout"
    /\ cps = <<1, 1>>
    /\ Len(root_state.mutation_stack) = 2

(***************************************************************************)
(* Game::do_move and Game::restart                                         *)
(***************************************************************************)
\* the last operation was a Game::do_move that returned ret
GameMoved(ret) == out.op = "game_do_move" /\ out.ret = ret /\ fault = NoFault

\* the moves the AI made in the last Game::do_move
AIMoves == TakenSince(out.arg.human, board)

\* C25: after a Game::do_move that returns true, it is not the AI's turn or the
\* board has no Free bar; the "AI move failed" branch is taken only on a board
\* with no Free bar, after which it is still the AI's turn; every bar taken
\* after the player's move is owned by the AI; the AI made no more moves than
\* there were Free bars after the player's move, and next_move was called once
\* for each of them and once more when the loop was left through the failed
\* branch.  No search of the AI panics.
C25_AILoopPostcondition ==
    /\ out.op = "game_do_move" => fault = NoFault
    /\ GameMoved(TRUE) =>
          /\ board.cur_turn # ai_player \/ FreeBars(board) = {}
          /\ out.arg.failed => FreeBars(board) = {} /\ board.cur_turn = ai_player
          /\ ~out.arg.failed => board.cur_turn # ai_player
          /\ \A e \in AIMoves : bar_get(board, e) = ai_player
          /\ \A e \in AllBars(board) \ AIMoves :
                bar_get(board, e) = bar_get(out.arg.human, e)
          /\ Cardinality(AIMoves) <= Cardinality(FreeBars(out.arg.human))
          /\ out.arg.asked = Cardinality(AIMoves) + (IF out.arg.failed THEN 1 ELSE 0)

\* the AI answered the player's move, scored, and moved again before the turn
\* went back to the player
C25_Witness ==
    /\ GameMoved(TRUE)
    /\ Cardinality(AIMoves) >= 2
    /\ ~out.arg.failed
    /\ board.cur_turn # ai_player
    /\ FreeBars(board) # {}

\* C26: every bar that a Game::do_move call takes for the human is taken while
\* it is not the AI's turn and is recorded as owned by Red.
C26_HumanMovesAsRed ==
    GameMoved(TRUE) =>
        /\ out.arg.before.cur_turn # ai_player
        /\ bar_get(out.arg.human, out.arg.bar) = Red

\* C27: a Game::do_move on a bar that is not Free returns false, calls
\* next_move not once, and leaves the board (bars, cells, cur_turn) as it was.
C27_RejectedMoveNoEffect ==
    out.op = "game_do_move" /\ bar_get(out.arg.before, out.arg.bar) # Free =>
        /\ out.ret = FALSE
        /\ out.arg.asked = 0 /\ ~out.arg.failed
        /\ board = out.arg.before
        /\ out.arg.human = out.arg.before
        /\ fault = NoFault

\* the player clicked a bar the AI had taken while other bars were Free
C27_Witness ==
    /\ GameMoved(FALSE)
    /\ bar_get(board, out.arg.bar) = ai_player
    /\ board.cur_turn # ai_player
    /\ FreeBars(board) # {}

====
